---------------------------- MODULE Spec2Model ----------------------------
(***************************************************************************)
(* Admin seeding routes of Cafe Fausse (backend/seed_routes.py).           *)
(*                                                                         *)
(* The database is the pair of tables customers / reservations with their  *)
(* identity sequences.  A timestamp is a number of minutes on the local    *)
(* wall clock: date * 1440 + hour * 60 + minute, where date counts days    *)
(* and `today` is the date datetime.now(LOCAL_TZ).date() returns.          *)
(* An email is the pair <<local part, domain>>, so that the SQL pattern    *)
(* LIKE '%@example.com' is a test of the domain.                           *)
(***************************************************************************)
EXTENDS Integers, Sequences, FiniteSets, TLC

VARIABLES
    customers,      \* committed rows of table customers
    reservations,   \* committed rows of table reservations
    cust_seq,       \* last value of the customers id sequence
    res_seq,        \* last value of the reservations id sequence
    today,          \* the local date
    autoflush,      \* whether SessionLocal() sessions flush before a query
    resp,           \* the last request (or call) and its response
    lp,             \* a seed request run step by step: its loop variables
    sessions,       \* concurrent requests: the session of each
    coPending       \* (time_slot, table_number) pairs two sessions held uncommitted at once

dbvars == <<customers, reservations, cust_seq, res_seq>>
config == <<today, autoflush>>
vars == <<customers, reservations, cust_seq, res_seq, today, autoflush, resp,
          lp, sessions, coPending>>

-----------------------------------------------------------------------------
(* Configuration and constants *)

MAX_PER_SLOT == 30

ADMIN_TOKEN == "dev-secret-123"

\* the X-Admin-Token header of a request: the secret, another value, or absent
Tokens == {ADMIN_TOKEN, "wrong", "missing"}

party_pattern == <<2, 4, 3, 5, 2, 6>>

demo_data == <<
    [name |-> "Avery Chen",    email |-> <<"avery.chen", "example.com">>,    phone |-> "202-555-0101", newsletter_signup |-> TRUE],
    [name |-> "Jordan Patel",  email |-> <<"jordan.patel", "example.com">>,  phone |-> "202-555-0102", newsletter_signup |-> FALSE],
    [name |-> "Riley Nguyen",  email |-> <<"riley.nguyen", "example.com">>,  phone |-> "202-555-0103", newsletter_signup |-> TRUE],
    [name |-> "Samira Ali",    email |-> <<"samira.ali", "example.com">>,    phone |-> "202-555-0104", newsletter_signup |-> FALSE],
    [name |-> "Diego Romero",  email |-> <<"diego.romero", "example.com">>,  phone |-> "202-555-0105", newsletter_signup |-> FALSE],
    [name |-> "Priya Shah",    email |-> <<"priya.shah", "example.com">>,    phone |-> "202-555-0106", newsletter_signup |-> TRUE],
    [name |-> "Maya Thompson", email |-> <<"maya.thompson", "example.com">>, phone |-> "202-555-0107", newsletter_signup |-> TRUE],
    [name |-> "Ethan Rivera",  email |-> <<"ethan.rivera", "example.com">>,  phone |-> "202-555-0108", newsletter_signup |-> FALSE],
    [name |-> "Zoe Park",      email |-> <<"zoe.park", "example.com">>,      phone |-> "202-555-0109", newsletter_signup |-> TRUE],
    [name |-> "Leo Carter",    email |-> <<"leo.carter", "example.com">>,    phone |-> "202-555-0110", newsletter_signup |-> FALSE] >>

-----------------------------------------------------------------------------
(* datetime arithmetic on the local wall clock *)

MinutesPerDay == 24 * 60

\* time(hour, minute) raises ValueError outside 0..23 / 0..59
ValidTime(hour, minute) == hour \in 0..23 /\ minute \in 0..59

\* datetime.combine(day, time(hour, minute), tzinfo=LOCAL_TZ)
Combine(day, hour, minute) == day * MinutesPerDay + hour * 60 + minute

HourOf(dt) == (dt % MinutesPerDay) \div 60

MinuteOf(dt) == dt % 60

DateOf(dt) == dt \div MinutesPerDay

-----------------------------------------------------------------------------
(* Sessions.  A session sees the committed tables as changed by its own    *)
(* flushed statements; rows it has added and not yet flushed wait in       *)
(* `pending`.  An id is drawn from the sequence in the order of the adds.  *)

Begin(cs, rs, cseq, rseq) ==
    [customers |-> cs, reservations |-> rs, pending |-> {},
     cust_seq |-> cseq, res_seq |-> rseq]

\* session.flush() / the flush inside session.commit()
Flush(s) == [s EXCEPT !.reservations = s.reservations \cup s.pending, !.pending = {}]

\* mutant: the wipe of reservations is left out
TruncateReservations_skipped(s) == s

\* TRUNCATE TABLE reservations RESTART IDENTITY CASCADE
TruncateReservations(s) ==
    [s EXCEPT !.reservations = {}, !.pending = {}, !.res_seq = 0]

\* TRUNCATE TABLE customers RESTART IDENTITY CASCADE: reservations reference
\* customers, so the cascade empties reservations as well
TruncateCustomers(s) ==
    [s EXCEPT !.customers = {}, !.cust_seq = 0,
              !.reservations = {}, !.pending = {}, !.res_seq = 0]

-----------------------------------------------------------------------------
(* _ensure_demo_customers *)

\* Customer.email.like("%@example.com")
LikeExampleCom(email) == email[2] = "example.com"

\* order_by(Customer.id): the i-th row is the one with i - 1 smaller ids
OrderById(S) ==
    [i \in 1..Cardinality(S) |->
        CHOOSE x \in S : Cardinality({y \in S : y.id < x.id}) = i - 1]

\* mutant: the emails found are ignored
ToAdd_all(existing) == demo_data

\* the demo entries to insert, given the emails the query returned
ToAdd(existing) == SelectSeq(demo_data, LAMBDA t : t.email \notin existing)

\* Customer(name=n, email=e, phone=p, newsletter_signup=ns), with the id the
\* flush draws from the sequence
NewCustomer(id, t) ==
    [id |-> id, name |-> t.name, email |-> t.email, phone |-> t.phone,
     newsletter_signup |-> t.newsletter_signup]

\* session.add_all(to_add); session.flush()
AddAll(s, to_add) ==
    [s EXCEPT !.customers = s.customers \cup
                  {NewCustomer(s.cust_seq + i, to_add[i]) : i \in 1..Len(to_add)},
              !.cust_seq = s.cust_seq + Len(to_add)]

\* session.query(Customer).filter(Customer.email.like("%@example.com")).order_by(Customer.id).all()
QueryDemoCustomers(s) ==
    [session |-> s,
     customers |-> OrderById({x \in s.customers : LikeExampleCom(x.email)})]

\* returns the session after the flush and the list the function returns
EnsureDemoCustomers(s) ==
    QueryDemoCustomers(
        AddAll(s, ToAdd({c.email : c \in {x \in s.customers : LikeExampleCom(x.email)}})))

-----------------------------------------------------------------------------
(* _slots_for_day *)

\* mutant: the end of the window is excluded
WhileCond_exclusive(cur, end) == cur < end

\* the loop condition of `while cur <= end`
WhileCond(cur, end) == cur <= end

RECURSIVE SlotsLoop(_, _, _)
SlotsLoop(cur, end, step_minutes) ==
    IF WhileCond(cur, end)
    THEN <<cur>> \o SlotsLoop(cur + step_minutes, end, step_minutes)
    ELSE <<>>

\* defined when the two times are valid and the loop terminates
SlotsForDay(day, start_hour, end_hour, step_minutes) ==
    SlotsLoop(Combine(day, start_hour, 0), Combine(day, end_hour, 0), step_minutes)

\* the loop of _slots_for_day ends: cur passes end after finitely many steps
SlotsTerminate(start_hour, end_hour, step_minutes) ==
    step_minutes > 0 \/ start_hour > end_hour

-----------------------------------------------------------------------------
(* _seed_reservations *)

Min(a, b) == IF a <= b THEN a ELSE b

Max(a, b) == IF a >= b THEN a ELSE b

\* mutant: the existence check filters on another table number
ExistsReservation_other_table(s, af, dt, table_n) ==
    \/ \E r \in s.reservations : r.time_slot = dt /\ r.table_number = 0
    \/ af /\ \E r \in s.pending : r.time_slot = dt /\ r.table_number = 0

\* session.query(Reservation.id).filter_by(time_slot=dt, table_number=table_n).first()
\* sees the flushed rows, and the pending ones when the query flushes first
ExistsReservation(s, af, dt, table_n) ==
    \/ \E r \in s.reservations : r.time_slot = dt /\ r.table_number = table_n
    \/ af /\ \E r \in s.pending : r.time_slot = dt /\ r.table_number = table_n

\* Reservation(customer_id=..., party_size=..., time_slot=dt, table_number=table_n)
NewReservation(id, custs, dt, table_n) ==
    [id |-> id,
     customer_id |-> custs[((table_n - 1) % Len(custs)) + 1].id,
     party_size |-> party_pattern[((table_n - 1) % Len(party_pattern)) + 1],
     time_slot |-> dt,
     table_number |-> table_n]

\* session.add(reservation)
AddReservation(s, custs, dt, table_n) ==
    [s EXCEPT !.pending = s.pending \cup {NewReservation(s.res_seq + 1, custs, dt, table_n)},
              !.res_seq = s.res_seq + 1]

\* the body of `for table_n in range(from, top + 1)`: skip what exists, add the rest
RECURSIVE FillTables(_, _, _, _, _, _)
FillTables(acc, af, custs, dt, table_n, top) ==
    IF table_n > top THEN acc
    ELSE IF ExistsReservation(acc.session, af, dt, table_n)
         THEN FillTables(acc, af, custs, dt, table_n + 1, top)
         ELSE FillTables([session |-> AddReservation(acc.session, custs, dt, table_n),
                          created |-> acc.created + 1],
                         af, custs, dt, table_n + 1, top)

\* mutant: the day index is not clamped to the days seeded
FullDayIdx_unclamped(days) == 2

\* pick one future day to fully book the 7:00 PM slot
FullDayIdx(days) == Min(2, Max(0, days - 1))

\* realistic load curve by hour
HourCurve(h) ==
    IF h < 18 THEN 8
    ELSE IF h = 18 THEN 12
    ELSE IF h = 19 THEN 18
    ELSE IF h = 20 THEN 16
    ELSE 10

\* choose target occupancy
Target(mode, fully_book_demo, d, days, dt) ==
    IF mode = "small" THEN Min(3, MAX_PER_SLOT)
    ELSE IF fully_book_demo /\ d = FullDayIdx(days)
            /\ HourOf(dt) = 19 /\ MinuteOf(dt) = 0
         THEN MAX_PER_SLOT
         ELSE HourCurve(HourOf(dt))

RECURSIVE SeedSlots(_, _, _, _, _, _, _)

\* the end of a slot's iteration: created_res has grown by the rows added, and
\* `if seeded_this_slot > 0: created_slots += 1`
SlotSeeded(acc, filled, af, custs, slots, i, d, a) ==
    IF filled.created > 0
    THEN SeedSlots([session |-> filled.session,
                    created_slots |-> acc.created_slots + 1,
                    created_reservations |-> acc.created_reservations + filled.created],
                   af, custs, slots, i + 1, d, a)
    ELSE SeedSlots([session |-> filled.session,
                    created_slots |-> acc.created_slots,
                    created_reservations |-> acc.created_reservations],
                   af, custs, slots, i + 1, d, a)

\* the body of `for dt in _slots_for_day(...)` on day index d, from the i-th slot on
SeedSlots(acc, af, custs, slots, i, d, a) ==
    IF i > Len(slots) THEN acc
    ELSE SlotSeeded(acc,
                    FillTables([session |-> acc.session, created |-> 0], af, custs, slots[i],
                               1, Min(Target(a.mode, a.fully_book_demo, d, a.days, slots[i]),
                                      MAX_PER_SLOT)),
                    af, custs, slots, i, d, a)

\* the body of `for d in range(days)`, from day index d on
RECURSIVE SeedDays(_, _, _, _, _, _)
SeedDays(acc, af, custs, day0, d, a) ==
    IF d >= a.days THEN acc
    ELSE SeedDays(SeedSlots(acc, af, custs,
                            SlotsForDay(day0 + d, a.start_hour, a.end_hour, a.step),
                            1, d, a),
                  af, custs, day0, d + 1, a)

\* _seed_reservations returns: it raises ValueError when a day is generated
\* with an hour time() rejects, and never returns when a day's loop cannot end
SeedRaises(a) == a.days >= 1 /\ ~(ValidTime(a.start_hour, 0) /\ ValidTime(a.end_hour, 0))

SeedHangs(a) ==
    a.days >= 1 /\ ~SeedRaises(a) /\ ~SlotsTerminate(a.start_hour, a.end_hour, a.step)

\* the function after `customers = _ensure_demo_customers(session)`
SeedWith(ensured, af, day0, a) ==
    IF Len(ensured.customers) = 0
    THEN [session |-> ensured.session, created_slots |-> 0, created_reservations |-> 0]
    ELSE SeedDays([session |-> ensured.session, created_slots |-> 0,
                   created_reservations |-> 0],
                  af, ensured.customers, day0, 0, a)

\* a: [days, start_hour, end_hour, step, mode, fully_book_demo]
SeedReservations(s, af, day0, a) == SeedWith(EnsureDemoCustomers(s), af, day0, a)

-----------------------------------------------------------------------------
(* Requests.  A handler is one step: it runs in its own session, and what  *)
(* it commits is the new database.  `fault` is the statement at which the  *)
(* database raises an error, if any.                                       *)

Faults == {"none", "wipe", "provision", "insert"}

\* session.rollback(): the tables are the committed ones
Rollback(committed, s) == committed

NoBody == [ok |-> FALSE]

\* session.commit() and the response of a seed that returned
SeedCommitted(r, wipe_customers) ==
    [db |-> Flush(r.session), status |-> 200,
     body |-> [ok |-> TRUE, wiped_customers |-> wipe_customers,
               created_slots |-> r.created_slots,
               created_reservations |-> r.created_reservations]]

\* the try block of admin_seed / admin_small_seed after the wipe is committed
SeedAfterWipe(truncated, af, day0, a, wipe_customers, fault) ==
    IF fault = "provision" \/ fault = "insert" \/ SeedRaises(a)
    THEN [db |-> Rollback(truncated, truncated), status |-> 500, body |-> NoBody]
    ELSE IF SeedHangs(a)
    THEN [db |-> truncated, status |-> 0, body |-> NoBody]
    ELSE SeedCommitted(SeedReservations(truncated, af, day0, a), wipe_customers)

\* the try block of admin_seed / admin_small_seed
SeedOutcome(s0, af, day0, a, wipe_customers, fault) ==
    IF fault = "wipe"
    THEN [db |-> Rollback(s0, s0), status |-> 500, body |-> NoBody]
    ELSE SeedAfterWipe(IF wipe_customers
                       THEN TruncateCustomers(TruncateReservations(s0))
                       ELSE TruncateReservations(s0),
                       af, day0, a, wipe_customers, fault)

\* _fill_slot(dt, target_tables)
FillSlot(s, af, custs, dt, target_tables) ==
    FillTables([session |-> s, created |-> 0], af, custs, dt, 1, target_tables)

\* session.commit() at the end of the scenario, and the dict it returns
CapacityCommitted(full, almost, slot_full, slot_almost) ==
    [db |-> Flush(almost.session), status |-> 200,
     body |-> [ok |-> TRUE, slot_full |-> slot_full, slot_almost |-> slot_almost,
               created_full |-> full.created, created_almost |-> almost.created]]

\* created_almost = _fill_slot(slot_almost, 29), after created_full
CapacityAlmost(full, af, custs, slot_full, slot_almost) ==
    CapacityCommitted(full, FillSlot(full.session, af, custs, slot_almost, 29),
                      slot_full, slot_almost)

\* _seed_capacity_scenario after the wipe is committed
CapacityAfterWipe(truncated, af, custs, slot_full, slot_almost, fault) ==
    IF fault = "insert"
    THEN [db |-> Rollback(truncated, truncated), status |-> 500, body |-> NoBody]
    ELSE CapacityAlmost(FillSlot(truncated, af, custs, slot_full, 30), af, custs,
                        slot_full, slot_almost)

\* _seed_capacity_scenario after `customers = _ensure_demo_customers(session)`
CapacityWith(s0, ensured, af, day0, a, fault) ==
    IF Len(ensured.customers) = 0
    THEN [db |-> s0, status |-> 200, body |-> [error |-> "no demo customers available"]]
    ELSE IF ~ValidTime(a.hour, a.minute) \/ fault = "wipe"
    THEN [db |-> Rollback(s0, ensured.session), status |-> 500, body |-> NoBody]
    ELSE CapacityAfterWipe(TruncateReservations(ensured.session), af, ensured.customers,
                           Combine(day0 + a.day, a.hour, a.minute),
                           Combine(day0 + a.day, a.hour, a.minute) + a.step, fault)

\* the try block of admin_seed_capacity, with _seed_capacity_scenario
\* a: [day, hour, minute, step]
CapacityOutcome(s0, af, day0, a, fault) ==
    IF fault = "provision"
    THEN [db |-> Rollback(s0, s0), status |-> 500, body |-> NoBody]
    ELSE CapacityWith(s0, EnsureDemoCustomers(s0), af, day0, a, fault)

Database == Begin(customers, reservations, cust_seq, res_seq)

Store(s) ==
    /\ customers' = s.customers
    /\ reservations' = s.reservations
    /\ cust_seq' = s.cust_seq
    /\ res_seq' = s.res_seq

\* the last request and its response; the query parameters are kept with a
\* success, where the response depends on them
Respond(route, token, a, out) ==
    resp' = [route |-> route, token |-> token,
             args |-> IF out.status = 200 THEN a ELSE "n/a",
             status |-> out.status, body |-> out.body, day0 |-> today,
             had |-> reservations # {}]

\* the query parameters the requests are drawn from
DaysSet == {0, 1, 3}

Windows == {<<18, 19>>, <<20, 18>>, <<24, 23>>}

Steps == {0, 30}

SeedArgs(mode, fbds) ==
    {[days |-> d, start_hour |-> w[1], end_hour |-> w[2], step |-> st,
      mode |-> mode, fully_book_demo |-> f]
       : d \in DaysSet, w \in Windows, st \in Steps, f \in fbds}

CapacityArgs ==
    {[day |-> d, hour |-> h, minute |-> m, step |-> st]
       : d \in {0}, h \in {19, 24}, m \in {0, 45}, st \in {0, 30, -30}}

\* a database error is raised in the request with the default parameters
DefaultSeedArgs(mode) ==
    [days |-> IF mode = "small" THEN 1 ELSE 7, start_hour |-> 17, end_hour |-> 23,
     step |-> 30, mode |-> mode, fully_book_demo |-> mode # "small"]

DefaultCapacityArgs == [day |-> 0, hour |-> 19, minute |-> 0, step |-> 30]

\* if token != ADMIN_TOKEN: return jsonify({"error": "unauthorized"}), 401
Unauthorized(route) ==
    \E token \in Tokens \ {ADMIN_TOKEN} :
        /\ Respond(route, token, "n/a",
                   [status |-> 401, body |-> [error |-> "unauthorized"]])
        /\ UNCHANGED <<dbvars, config, lp, sessions, coPending>>

SeedRoute(route, mode, fbds) ==
    \E wipe_customers \in BOOLEAN, fault \in Faults :
      \E a \in IF fault = "none" THEN SeedArgs(mode, fbds) ELSE {DefaultSeedArgs(mode)} :
        \E out \in {SeedOutcome(Database, autoflush, today, a, wipe_customers, fault)} :
            /\ Store(out.db)
            /\ Respond(route, ADMIN_TOKEN, a, out)
            /\ UNCHANGED <<config, lp, sessions, coPending>>

\* POST /api/admin/seed
admin_seed ==
    \/ Unauthorized("seed")
    \/ SeedRoute("seed", "normal", BOOLEAN)

\* POST /api/admin/smallseed
admin_small_seed ==
    \/ Unauthorized("smallseed")
    \/ SeedRoute("smallseed", "small", {FALSE})

\* POST /api/admin/seed_capacity: the token is read and never compared
admin_seed_capacity ==
    \E token \in Tokens, fault \in Faults :
      \E a \in IF fault = "none" THEN CapacityArgs ELSE {DefaultCapacityArgs} :
        \E out \in {CapacityOutcome(Database, autoflush, today, a, fault)} :
            /\ Store(out.db)
            /\ Respond("seed_capacity", token, a, out)
            /\ UNCHANGED <<config, lp, sessions, coPending>>

\* a guest of the restaurant and the bookings made through the application
Guest == [id |-> 1, name |-> "Pat Guest", email |-> <<"pat", "mail.test">>,
          phone |-> "202-555-0199", newsletter_signup |-> FALSE]

Booked ==
    {[id |-> 1, customer_id |-> 1, party_size |-> 2,
      time_slot |-> Combine(0, 19, 0), table_number |-> 2],
     [id |-> 2, customer_id |-> 1, party_size |-> 4,
      time_slot |-> Combine(0, 18, 15), table_number |-> 7]}

NoRequest == [route |-> "none", token |-> "missing", args |-> "n/a", status |-> 0,
              body |-> NoBody, day0 |-> 0, had |-> FALSE]

\* a fresh database, or one the application has been used on
InitDatabase ==
    \/ customers = {} /\ reservations = {} /\ cust_seq = 0 /\ res_seq = 0
    \/ customers = {Guest} /\ reservations = Booked /\ cust_seq = 1 /\ res_seq = 2

\* no request is being run step by step, no concurrent session is open
Sequential ==
    /\ lp = [pc |-> "off"]
    /\ sessions = <<>>
    /\ coPending = {}

Init ==
    /\ InitDatabase
    /\ today = 0
    /\ autoflush \in BOOLEAN
    /\ resp = NoRequest
    /\ Sequential

Next ==
    \/ admin_seed
    \/ admin_small_seed
    \/ admin_seed_capacity

Spec == Init /\ [][Next]_vars

-----------------------------------------------------------------------------
(* _seed_reservations called on its own, the caller committing after it    *)
(* returns: CurveSpec calls it once on an empty reservations table,        *)
(* SeederSpec any number of times with no wipe in between.                 *)

\* session = SessionLocal(); _seed_reservations(session, ...); session.commit()
SeedCall(a) ==
    /\ ~SeedRaises(a)
    /\ ~SeedHangs(a)
    /\ \E r \in {SeedReservations(Database, autoflush, today, a)} :
          /\ Store(Flush(r.session))
          /\ Respond("call", ADMIN_TOKEN, a,
                     [status |-> 200,
                      body |-> [created_slots |-> r.created_slots,
                                created_reservations |-> r.created_reservations]])
    /\ UNCHANGED <<config, lp, sessions, coPending>>

MaxToday == 1

\* the local date changes
Midnight ==
    /\ today < MaxToday
    /\ today' = today + 1
    /\ UNCHANGED <<dbvars, autoflush, resp, lp, sessions, coPending>>

\* another customer with an address of the demo domain
OldDemo == [id |-> 2, name |-> "Old Demo", email |-> <<"old.demo", "example.com">>,
            phone |-> "202-555-0100", newsletter_signup |-> TRUE]

CurveArgs ==
    {[days |-> d, start_hour |-> w[1], end_hour |-> w[2], step |-> st,
      mode |-> "normal", fully_book_demo |-> f]
       : d \in {0, 1, 2, 3}, w \in {<<17, 23>>, <<19, 21>>}, st \in {30, 45},
         f \in BOOLEAN}

CurveInit ==
    /\ reservations = {} /\ res_seq = 0
    /\ \/ customers = {} /\ cust_seq = 0
       \/ customers = {Guest, OldDemo} /\ cust_seq = 2
    /\ today \in 0..MaxToday
    /\ autoflush \in BOOLEAN
    /\ resp = NoRequest
    /\ Sequential

seed_empty_table ==
    /\ reservations = {}
    /\ \E a \in CurveArgs : SeedCall(a)

CurveNext == seed_empty_table

CurveSpec == CurveInit /\ [][CurveNext]_vars

SeederArgs ==
    {[days |-> m[3], start_hour |-> 19, end_hour |-> m[4], step |-> 60,
      mode |-> m[1], fully_book_demo |-> m[2]]
       : m \in {<<"small", FALSE, 2, 19>>, <<"normal", FALSE, 1, 19>>,
                <<"normal", TRUE, 2, 19>>}}

seed_again == \E a \in SeederArgs : SeedCall(a)

SeederInit ==
    /\ InitDatabase
    /\ today = 0
    /\ autoflush \in BOOLEAN
    /\ resp = NoRequest
    /\ Sequential

SeederNext ==
    \/ seed_again
    \/ Midnight

SeederSpec == SeederInit /\ [][SeederNext]_vars

-----------------------------------------------------------------------------
(* _ensure_demo_customers called on its own, any number of times, the      *)
(* caller committing after it returns (ProvisionSpec).                     *)

MaxCalls == 3

\* a customers table with unique emails and ids: the demo entries `present`,
\* the first of them under another name when `renamed`, a guest, and another
\* customer of the demo domain
CustomerTable(present, renamed, guest, old) ==
    {IF renamed /\ i = 1
     THEN [id |-> 1, name |-> "A. Chen", email |-> demo_data[1].email,
           phone |-> "202-555-0000", newsletter_signup |-> FALSE]
     ELSE NewCustomer(i, demo_data[i]) : i \in present}
    \cup (IF guest THEN {[Guest EXCEPT !.id = 11]} ELSE {})
    \cup (IF old THEN {[OldDemo EXCEPT !.id = 12]} ELSE {})

ProvisionInit ==
    /\ \E present \in SUBSET (1..Len(demo_data)), renamed, guest, old \in BOOLEAN :
          customers = CustomerTable(present, renamed, guest, old)
    /\ cust_seq = 12
    /\ reservations = {} /\ res_seq = 0
    /\ today = 0
    /\ autoflush \in BOOLEAN
    /\ resp = [route |-> "none", calls |-> 0]
    /\ Sequential

\* session = SessionLocal(); _ensure_demo_customers(session); session.commit()
ensure_call ==
    /\ resp.calls < MaxCalls
    /\ \E r \in {EnsureDemoCustomers(Database)} :
          /\ Store(r.session)
          /\ resp' = [route |-> "ensure",
                      calls |-> resp.calls + 1,
                      returned |-> [i \in 1..Len(r.customers) |-> r.customers[i].id],
                      first_returned |-> IF resp.calls = 0 THEN Len(r.customers)
                                         ELSE resp.first_returned,
                      inserted |-> r.session.customers \ customers,
                      before |-> IF resp.calls = 0 THEN customers ELSE resp.before]
    /\ UNCHANGED <<config, lp, sessions, coPending>>

ProvisionNext == ensure_call

ProvisionSpec == ProvisionInit /\ [][ProvisionNext]_vars

-----------------------------------------------------------------------------
(* An authorised seed / smallseed request run statement by statement       *)
(* (LoopSpec): the wipe, then `for d in range(days)`, the while loop of    *)
(* _slots_for_day one iteration at a time, the slots of the day, and the   *)
(* commit and response.  Each statement that is enabled is eventually      *)
(* executed: nothing else runs in the request's thread.                    *)

\* the longest list of slots the model holds; the list of a loop that ends is shorter
MaxSlots == 50

LoopArgs ==
    {[days |-> d, start_hour |-> sh, end_hour |-> eh, step |-> st,
      mode |-> "small", fully_book_demo |-> FALSE]
       : d \in {0, 1, 2}, sh \in {0, 17, 19, 23}, eh \in {0, 17, 19, 23},
         st \in {0, 30, 45, 60}}
    \cup
    {[days |-> d, start_hour |-> 19, end_hour |-> eh, step |-> st,
      mode |-> "normal", fully_book_demo |-> f]
       : d \in {1, 2}, eh \in {18, 19, 20}, st \in {0, 30, 60}, f \in BOOLEAN}

\* the local variables of the request before admin_seed's try block
LoopStart(a) ==
    [pc |-> "begin", a |-> a, db0 |-> Begin({}, {}, 0, 0), d |-> 0, custs |-> <<>>,
     session |-> Begin({}, {}, 0, 0), created_slots |-> 0, created_res |-> 0,
     cur |-> 0, end |-> 0, slots |-> <<>>, odd |-> FALSE, i |-> 0, target |-> 0, table_n |-> 0,
     seeded_this_slot |-> 0]

LoopInit ==
    /\ InitDatabase
    /\ today = 0
    /\ autoflush \in BOOLEAN
    /\ resp = NoRequest
    /\ lp \in {LoopStart(a) : a \in LoopArgs}
    /\ sessions = <<>>
    /\ coPending = {}

\* the token is the secret; TRUNCATE ...; session.commit();
\* customers = _ensure_demo_customers(session)
lp_begin ==
    /\ lp.pc = "begin"
    /\ Store(TruncateReservations(Database))
    /\ lp' = [lp EXCEPT !.pc = "for_d",
                        !.db0 = Database,
                        !.d = 0,
                        !.custs = EnsureDemoCustomers(TruncateReservations(Database)).customers,
                        !.session = EnsureDemoCustomers(TruncateReservations(Database)).session]
    /\ UNCHANGED <<config, resp, sessions, coPending>>

\* for d in range(days): the call of _slots_for_day up to `cur = start`
lp_for_d ==
    /\ lp.pc = "for_d"
    /\ lp.d < lp.a.days
    /\ ValidTime(lp.a.start_hour, 0) /\ ValidTime(lp.a.end_hour, 0)
    /\ lp' = [lp EXCEPT !.pc = "while",
                        !.cur = Combine(today + lp.d, lp.a.start_hour, 0),
                        !.end = Combine(today + lp.d, lp.a.end_hour, 0),
                        !.slots = <<>>,
                        !.odd = FALSE]
    /\ UNCHANGED <<dbvars, config, resp, sessions, coPending>>

\* while cur <= end: slots.append(cur); cur += timedelta(minutes=step_minutes)
\* (of a list longer than MaxSlots the model holds the first MaxSlots entries;
\* `odd` is the parity of the number of iterations made)
lp_while ==
    /\ lp.pc = "while"
    /\ WhileCond(lp.cur, lp.end)
    /\ lp' = [lp EXCEPT !.slots = IF Len(lp.slots) < MaxSlots
                                  THEN Append(lp.slots, lp.cur)
                                  ELSE lp.slots,
                        !.cur = lp.cur + lp.a.step,
                        !.odd = ~lp.odd]
    /\ UNCHANGED <<dbvars, config, resp, sessions, coPending>>

\* the loop condition fails: return slots
lp_return ==
    /\ lp.pc = "while"
    /\ ~WhileCond(lp.cur, lp.end)
    /\ lp' = [lp EXCEPT !.pc = "for_dt", !.i = 1]
    /\ UNCHANGED <<dbvars, config, resp, sessions, coPending>>

\* for dt in slots: choose target occupancy; seeded_this_slot = 0
lp_for_dt ==
    /\ lp.pc = "for_dt"
    /\ lp.i <= Len(lp.slots)
    /\ lp' = [lp EXCEPT !.pc = "for_table",
                        !.target = Target(lp.a.mode, lp.a.fully_book_demo, lp.d,
                                          lp.a.days, lp.slots[lp.i]),
                        !.table_n = 1,
                        !.seeded_this_slot = 0]
    /\ UNCHANGED <<dbvars, config, resp, sessions, coPending>>

\* the slots of the day are done: the next d
lp_next_d ==
    /\ lp.pc = "for_dt"
    /\ lp.i > Len(lp.slots)
    /\ lp' = [lp EXCEPT !.pc = "for_d", !.d = lp.d + 1]
    /\ UNCHANGED <<dbvars, config, resp, sessions, coPending>>

\* for table_n in range(1, min(target, MAX_PER_SLOT) + 1): skip or add
lp_for_table ==
    /\ lp.pc = "for_table"
    /\ lp.table_n <= Min(lp.target, MAX_PER_SLOT)
    /\ IF ExistsReservation(lp.session, autoflush, lp.slots[lp.i], lp.table_n)
       THEN lp' = [lp EXCEPT !.table_n = lp.table_n + 1]
       ELSE lp' = [lp EXCEPT !.session = AddReservation(lp.session, lp.custs,
                                                        lp.slots[lp.i], lp.table_n),
                             !.created_res = lp.created_res + 1,
                             !.seeded_this_slot = lp.seeded_this_slot + 1,
                             !.table_n = lp.table_n + 1]
    /\ UNCHANGED <<dbvars, config, resp, sessions, coPending>>

\* if seeded_this_slot > 0: created_slots += 1; the next dt
lp_slot_done ==
    /\ lp.pc = "for_table"
    /\ lp.table_n > Min(lp.target, MAX_PER_SLOT)
    /\ lp' = [lp EXCEPT !.pc = "for_dt",
                        !.i = lp.i + 1,
                        !.created_slots = lp.created_slots
                                          + (IF lp.seeded_this_slot > 0 THEN 1 ELSE 0)]
    /\ UNCHANGED <<dbvars, config, resp, sessions, coPending>>

\* return {...}; session.commit(); return jsonify(...), 200
lp_respond ==
    /\ lp.pc = "for_d"
    /\ lp.d >= lp.a.days
    /\ Store(Flush(lp.session))
    /\ Respond("seed", ADMIN_TOKEN, lp.a,
               SeedCommitted([session |-> lp.session,
                              created_slots |-> lp.created_slots,
                              created_reservations |-> lp.created_res], FALSE))
    /\ lp' = [lp EXCEPT !.pc = "responded"]
    /\ UNCHANGED <<config, sessions, coPending>>

LoopNext ==
    \/ lp_begin
    \/ lp_for_d
    \/ lp_while
    \/ lp_return
    \/ lp_for_dt
    \/ lp_for_table
    \/ lp_slot_done
    \/ lp_next_d
    \/ lp_respond

LoopSpec == LoopInit /\ [][LoopNext]_vars /\ WF_vars(LoopNext)

-----------------------------------------------------------------------------
(* Two authorised smallseed requests served at the same time (ConcSpec),   *)
(* each in its own session.  A transaction reads the committed rows and    *)
(* its own flushed ones (READ COMMITTED); the rows a session has added     *)
(* have no id until they are flushed; TRUNCATE waits for the transactions  *)
(* that have touched the table.  The demo customers are provisioned, so    *)
(* _ensure_demo_customers inserts nothing.                                 *)

Procs == {1, 2}

ConcArgs ==
    {[days |-> 1, start_hour |-> 19, end_hour |-> eh, step |-> 60,
      mode |-> "small", fully_book_demo |-> FALSE] : eh \in {19, 20}}

\* the request before its try block
ConcStart(a) ==
    [pc |-> "begin", a |-> a, custs |-> <<>>, slots |-> <<>>, i |-> 0, target |-> 0,
     table_n |-> 0, pending |-> <<>>, written |-> {}, intx |-> FALSE,
     created_res |-> 0, status |-> 0]

ConcInit ==
    /\ customers = CustomerTable(1..Len(demo_data), FALSE, TRUE, FALSE)
    /\ cust_seq = 11
    /\ \/ reservations = {} /\ res_seq = 0
       \/ reservations = Booked /\ res_seq = 2
    /\ today = 0
    /\ autoflush \in BOOLEAN
    /\ resp = NoRequest
    /\ lp = [pc |-> "off"]
    /\ sessions \in [Procs -> {ConcStart(a) : a \in ConcArgs}]
    /\ coPending = {}

\* the INSERTs of a flush, in the order of the adds: each row draws its id
FlushedRows(pending, seq) ==
    {[pending[k] EXCEPT !.id = seq + k] : k \in 1..Len(pending)}

\* the rows of reservations a session has written or added and not committed
Uncommitted(s) == s.written \cup {s.pending[k] : k \in 1..Len(s.pending)}

\* mutant: a query reads the session's own rows only
ConcView_own_rows(p) ==
    [customers |-> customers,
     reservations |-> sessions[p].written,
     pending |-> {sessions[p].pending[k] : k \in 1..Len(sessions[p].pending)},
     cust_seq |-> cust_seq, res_seq |-> res_seq]

\* what the queries of session p read: the committed rows and its own
ConcView(p) ==
    [customers |-> customers,
     reservations |-> reservations \cup sessions[p].written,
     pending |-> {sessions[p].pending[k] : k \in 1..Len(sessions[p].pending)},
     cust_seq |-> cust_seq, res_seq |-> res_seq]

\* TRUNCATE TABLE reservations RESTART IDENTITY CASCADE; session.commit():
\* the statement waits while another transaction has touched reservations
conc_begin(p) ==
    /\ sessions[p].pc = "begin"
    /\ \A q \in Procs \ {p} : ~sessions[q].intx
    /\ Store(TruncateReservations(Database))
    /\ sessions' = [sessions EXCEPT ![p].pc = "ensure"]
    /\ UNCHANGED <<config, resp, lp, coPending>>

\* customers = _ensure_demo_customers(session); for d in range(days):
\* for dt in _slots_for_day(...): the target of the first slot
conc_ensure(p) ==
    /\ sessions[p].pc = "ensure"
    /\ EnsureDemoCustomers(Database).session = Database
    /\ sessions' =
         [sessions EXCEPT
            ![p].pc = "tables",
            ![p].custs = EnsureDemoCustomers(Database).customers,
            ![p].slots = SlotsForDay(today, sessions[p].a.start_hour,
                                     sessions[p].a.end_hour, sessions[p].a.step),
            ![p].i = 1,
            ![p].target = Target(sessions[p].a.mode, sessions[p].a.fully_book_demo, 0,
                                 sessions[p].a.days,
                                 Combine(today, sessions[p].a.start_hour, 0)),
            ![p].table_n = 1]
    /\ UNCHANGED <<dbvars, config, resp, lp, coPending>>

\* one iteration of `for table_n in range(1, min(target, MAX_PER_SLOT) + 1)`:
\* the query (after the flush of the rows added, when the session autoflushes),
\* then `continue` or session.add(reservation)
conc_table(p) ==
    /\ sessions[p].pc = "tables"
    /\ sessions[p].table_n <= Min(sessions[p].target, MAX_PER_SLOT)
    /\ \E s \in {sessions[p]} :
       \E dt \in {s.slots[s.i]} :
       \E found \in {ExistsReservation(ConcView(p), autoflush, dt, s.table_n)} :
       \E written \in {IF autoflush THEN s.written \cup FlushedRows(s.pending, res_seq)
                       ELSE s.written} :
       \E kept \in {IF autoflush THEN <<>> ELSE s.pending} :
          /\ res_seq' = IF autoflush THEN res_seq + Len(s.pending) ELSE res_seq
          /\ sessions' =
               [sessions EXCEPT
                  ![p].intx = TRUE,
                  ![p].written = written,
                  ![p].pending =
                      IF found THEN kept
                      ELSE Append(kept, NewReservation(0, s.custs, dt, s.table_n)),
                  ![p].created_res = IF found THEN s.created_res ELSE s.created_res + 1,
                  ![p].table_n = s.table_n + 1]
          /\ coPending' =
               IF ~found /\ \E q \in Procs \ {p} : \E r \in Uncommitted(sessions[q]) :
                                r.time_slot = dt /\ r.table_number = s.table_n
               THEN coPending \cup {<<dt, s.table_n>>}
               ELSE coPending
    /\ UNCHANGED <<customers, reservations, cust_seq, config, resp, lp>>

\* the tables of the slot are done: the next dt and its target
conc_slot_done(p) ==
    /\ sessions[p].pc = "tables"
    /\ sessions[p].table_n > Min(sessions[p].target, MAX_PER_SLOT)
    /\ sessions' =
         IF sessions[p].i < Len(sessions[p].slots)
         THEN [sessions EXCEPT
                 ![p].i = sessions[p].i + 1,
                 ![p].target = Target(sessions[p].a.mode, sessions[p].a.fully_book_demo,
                                      0, sessions[p].a.days,
                                      sessions[p].slots[sessions[p].i + 1]),
                 ![p].table_n = 1]
         ELSE [sessions EXCEPT ![p].pc = "commit"]
    /\ UNCHANGED <<dbvars, config, resp, lp, coPending>>

\* session.commit(); return jsonify(...), 200
conc_commit(p) ==
    /\ sessions[p].pc = "commit"
    /\ reservations' = reservations \cup sessions[p].written
                         \cup FlushedRows(sessions[p].pending, res_seq)
    /\ res_seq' = res_seq + Len(sessions[p].pending)
    /\ sessions' = [sessions EXCEPT ![p].pc = "responded",
                                    ![p].pending = <<>>,
                                    ![p].written = {},
                                    ![p].intx = FALSE,
                                    ![p].status = 200]
    /\ UNCHANGED <<customers, cust_seq, config, resp, lp, coPending>>

ConcNext ==
    \E p \in Procs :
        \/ conc_begin(p)
        \/ conc_ensure(p)
        \/ conc_table(p)
        \/ conc_slot_done(p)
        \/ conc_commit(p)

ConcSpec == ConcInit /\ [][ConcNext]_vars

-----------------------------------------------------------------------------
(* Properties of the routes (Spec) *)

RowsAt(rows, dt) == {r \in rows : r.time_slot = dt}

\* the tables of the rows are exactly 1..n, each used by one row
OnePerTable(rows, n) ==
    /\ Cardinality(rows) = n
    /\ {r.table_number : r \in rows} = 1..n

\* C1: on each of the three routes, a request whose X-Admin-Token is missing
\* or differs from the secret is answered 401 and leaves customers and
\* reservations (and their sequences) as they were.
C1_UnauthorizedIs401AndMutatesNothing ==
    [][resp'.token # ADMIN_TOKEN => (resp'.status = 401 /\ UNCHANGED dbvars)]_vars

\* C2: an authorised request that fails with an exception (HTTP 500) leaves the
\* committed customers and reservations tables as they were before the request.
C2_FailedRequestLeavesTables ==
    [][(resp'.status = 500 /\ resp'.token = ADMIN_TOKEN)
          => UNCHANGED <<customers, reservations>>]_vars

\* C4: after the capacity scenario succeeds, slot_full holds exactly 30
\* reservations on tables 1..30, slot_almost = slot_full + step holds exactly 29
\* on tables 1..29, and created_full / created_almost are 30 and 29.
C4_CapacityFillsThirtyAndTwentyNine ==
    (resp.route = "seed_capacity" /\ resp.status = 200) =>
        /\ resp.body.slot_almost = resp.body.slot_full + resp.args.step
        /\ OnePerTable(RowsAt(reservations, resp.body.slot_full), 30)
        /\ OnePerTable(RowsAt(reservations, resp.body.slot_almost), 29)
        /\ resp.body.created_full = 30
        /\ resp.body.created_almost = 29

\* C9: after a successful seed or smallseed request, whatever reservations
\* existed before, the reservations table holds exactly the rows the request
\* created (freshly numbered 1..created_reservations, on created_slots distinct
\* time slots), and the customers that existed before remain unless
\* wipe_customers is true.
C9_SeedReplacesReservations ==
    [][(resp'.route \in {"seed", "smallseed"} /\ resp'.status = 200) =>
          /\ Cardinality(reservations') = resp'.body.created_reservations
          /\ {r.id : r \in reservations'} = 1..resp'.body.created_reservations
          /\ Cardinality({r.time_slot : r \in reservations'}) = resp'.body.created_slots
          /\ (~resp'.body.wiped_customers => customers \subseteq customers')
      ]_vars

\* C9 witness: a seed succeeded on a database that held bookings, created rows,
\* and the guest is still a customer
C9_Witness ==
    /\ resp.route \in {"seed", "smallseed"}
    /\ resp.status = 200
    /\ resp.had
    /\ resp.body.created_reservations > 0
    /\ Guest \in customers

-----------------------------------------------------------------------------
(* Properties of _seed_reservations (CurveSpec, SeederSpec) *)

\* the 30-minute slots of the window 17:00..23:00 on the days seeded
DinnerSlots(day0, days) ==
    {(day0 + d) * 1440 + 17 * 60 + 30 * k : d \in 0..(days - 1), k \in 0..12}

\* 8 before 18:00, 12 at 18:xx, 18 at 19:xx, 16 at 20:xx, 10 from 21:00 on
CurveAt(dt) ==
    LET m == dt % 1440
    IN  IF m < 18 * 60 THEN 8
        ELSE IF m < 19 * 60 THEN 12
        ELSE IF m < 20 * 60 THEN 18
        ELSE IF m < 21 * 60 THEN 16
        ELSE 10

\* the 19:00 slot of day index min(2, days - 1)
FullSlot(day0, days) ==
    (day0 + (IF days - 1 < 2 THEN days - 1 ELSE 2)) * 1440 + 19 * 60

DinnerSeed ==
    /\ resp.route = "call"
    /\ resp.args.mode = "normal"
    /\ resp.args.start_hour = 17 /\ resp.args.end_hour = 23 /\ resp.args.step = 30
    /\ resp.args.days >= 1

\* C5: after a normal-mode seed of the window 17..23, step 30, days >= 1, on an
\* empty reservations table: with fully_book_demo the 19:00 slot of day index
\* min(2, days-1) holds 30 reservations, one per table 1..30; every other
\* generated slot holds the number of the hour curve, on tables 1..target; no
\* other slot holds a reservation; without fully_book_demo no slot holds 30.
C5_TargetsFollowCurve ==
    DinnerSeed =>
        /\ \A dt \in DinnerSlots(resp.day0, resp.args.days) :
              OnePerTable(RowsAt(reservations, dt),
                          IF resp.args.fully_book_demo
                             /\ dt = FullSlot(resp.day0, resp.args.days)
                          THEN 30 ELSE CurveAt(dt))
        /\ {r.time_slot : r \in reservations} = DinnerSlots(resp.day0, resp.args.days)
        /\ (~resp.args.fully_book_demo =>
               \A r \in reservations :
                  Cardinality(RowsAt(reservations, r.time_slot)) < 30)

\* C5 witness: three days seeded with fully_book_demo, day index 2 at 19:00 is full
C5_Witness ==
    /\ DinnerSeed
    /\ resp.args.days = 3
    /\ resp.args.fully_book_demo
    /\ Cardinality(RowsAt(reservations, (resp.day0 + 2) * 1440 + 19 * 60)) = 30
    /\ Cardinality(RowsAt(reservations, (resp.day0 + 1) * 1440 + 19 * 60)) = 18

NoDuplicatePair(rows) ==
    \A r1, r2 \in rows :
        (r1.time_slot = r2.time_slot /\ r1.table_number = r2.table_number) => r1 = r2

\* a step of SeederSpec that is a call following a call with the same
\* parameters (the one other step, Midnight, changes the date)
SameSeedAgain ==
    /\ today' = today
    /\ resp.route = "call"
    /\ resp'.route = "call"
    /\ resp'.args = resp.args

\* C3 as stated: after any sequence of _seed_reservations calls with no wipe in
\* between no two reservations share (time_slot, table_number), and a call with
\* the parameters of the call before it creates zero reservations.
C3_NoDuplicateAndSecondSeedCreatesNone ==
    [][/\ NoDuplicatePair(reservations')
       /\ (SameSeedAgain => resp'.body.created_reservations = 0)]_vars

\* C3 amended: ... and a call with the parameters of the call before it, made
\* on the same local date, creates zero reservations.
C3_NoDuplicateAndSameDaySeedCreatesNone ==
    [][/\ NoDuplicatePair(reservations')
       /\ ((SameSeedAgain /\ resp'.day0 = resp.day0)
              => resp'.body.created_reservations = 0)]_vars

\* C3 witness: a call on a table that held the rows of earlier calls and of the
\* application found every pair present and created nothing
C3_Witness ==
    /\ resp.route = "call"
    /\ resp.had
    /\ resp.body.created_reservations = 0
    /\ Booked \subseteq reservations
    /\ Cardinality(reservations) > 30

-----------------------------------------------------------------------------
(* Properties of _ensure_demo_customers (ProvisionSpec) *)

Emails(rows) == {c.email : c \in rows}

UniqueEmails(rows) == \A c1, c2 \in rows : c1.email = c2.email => c1 = c2

DemoEmails == {demo_data[i].email : i \in 1..Len(demo_data)}

IsDemoEntry(c) ==
    \E i \in 1..Len(demo_data) :
        /\ c.name = demo_data[i].name /\ c.email = demo_data[i].email
        /\ c.phone = demo_data[i].phone
        /\ c.newsletter_signup = demo_data[i].newsletter_signup

\* C7: from a customers table with unique emails, after any number of calls of
\* _ensure_demo_customers no email is duplicated; the rows added are exactly
\* the demo entries whose email was missing before the first call, all added by
\* the first call; no row that existed is changed or deleted; and every call
\* returns as many rows as the first, ordered by id.
C7_ProvisionIsIdempotent ==
    resp.route = "ensure" =>
        /\ UniqueEmails(customers)
        /\ resp.before \subseteq customers
        /\ Emails(customers \ resp.before) = DemoEmails \ Emails(resp.before)
        /\ \A c \in customers \ resp.before : IsDemoEntry(c)
        /\ resp.inserted = IF resp.calls = 1 THEN customers \ resp.before ELSE {}
        /\ Len(resp.returned) = resp.first_returned
        /\ \A i, j \in 1..Len(resp.returned) : i < j => resp.returned[i] < resp.returned[j]

\* C7 witness: a second call on a table that held some of the demo entries
\* before the first
C7_Witness ==
    /\ resp.route = "ensure"
    /\ resp.calls = 2
    /\ Cardinality(Emails(resp.before) \cap DemoEmails) = 4
    /\ Cardinality(customers \ resp.before) = 6
    /\ resp.inserted = {}

-----------------------------------------------------------------------------
(* Properties of _slots_for_day and of the seed request's loops (LoopSpec) *)

\* _slots_for_day has returned the list lp.slots for day index lp.d
SlotsReturned == lp.pc = "for_dt" /\ lp.i = 1

\* C6: for start_hour <= end_hour in 0..23 and step >= 1, _slots_for_day
\* returns floor((end_hour - start_hour) * 60 / step) + 1 timestamps, strictly
\* increasing, consecutive ones step minutes apart, the first start_hour:00,
\* the last <= end_hour:00 and equal to it when it falls on a step boundary.
C6_SlotCountAndBounds ==
    (SlotsReturned /\ lp.a.start_hour <= lp.a.end_hour /\ lp.a.step >= 1) =>
        LET n     == Len(lp.slots)
            first == (today + lp.d) * 1440 + lp.a.start_hour * 60
            last  == (today + lp.d) * 1440 + lp.a.end_hour * 60
        IN  /\ n = ((lp.a.end_hour - lp.a.start_hour) * 60) \div lp.a.step + 1
            /\ lp.slots[1] = first
            /\ \A i \in 1..(n - 1) : lp.slots[i + 1] = lp.slots[i] + lp.a.step
            /\ lp.slots[n] <= last
            /\ (((lp.a.end_hour - lp.a.start_hour) * 60) % lp.a.step = 0
                   => lp.slots[n] = last)

\* C6 witness: the window 17..23 at step 30 gave 13 slots, the last at 23:00
C6_Witness ==
    /\ SlotsReturned
    /\ lp.a.start_hour = 17 /\ lp.a.end_hour = 23 /\ lp.a.step = 30
    /\ Len(lp.slots) = 13
    /\ lp.slots[13] = (today + lp.d) * 1440 + 23 * 60

\* C10: every authorised seed or smallseed request (days, hours in 0..23 and
\* step as the route accepts them) eventually produces a response, and the
\* slot generator returns the empty sequence when end_hour < start_hour.
C10_EveryRequestResponds ==
    /\ <>(lp.pc = "responded")
    /\ []((SlotsReturned /\ lp.a.end_hour < lp.a.start_hour) => lp.slots = <<>>)

\* two committed reservations share (time_slot, table_number)
DuplicateCommitted(dt, table_n) ==
    \E r1, r2 \in reservations :
        /\ r1 # r2
        /\ r1.time_slot = dt /\ r1.table_number = table_n
        /\ r2.time_slot = dt /\ r2.table_number = table_n

\* C8: two concurrent authorised seeding requests can commit two reservations
\* with the same (time_slot, table_number): the existence check does not see
\* the other session's uncommitted row, and every committed duplicate is a
\* pair both sessions held uncommitted at the same time.
C8_DuplicatesComeFromTheRace ==
    \A r \in reservations :
        DuplicateCommitted(r.time_slot, r.table_number)
            => <<r.time_slot, r.table_number>> \in coPending

\* C8 witness: both requests answered 200 and table 1 at 19:00 is booked twice
C8_Witness ==
    /\ \A p \in Procs : sessions[p].pc = "responded" /\ sessions[p].status = 200
    /\ DuplicateCommitted(Combine(today, 19, 0), 1)

\* the list built one iteration at a time is the one SlotsForDay computes
LoopAgreesWithSlotsForDay ==
    SlotsReturned =>
        lp.slots = SlotsForDay(today + lp.d, lp.a.start_hour, lp.a.end_hour, lp.a.step)

\* a loop that ends never fills the list the model holds
LoopBelowMaxSlots ==
    (lp.pc = "while" /\ SlotsTerminate(lp.a.start_hour, lp.a.end_hour, lp.a.step))
        => Len(lp.slots) < MaxSlots

\* the request that has responded answered and left the database as the
\* request taken as one step does
LoopAgreesWithSeedOutcome ==
    lp.pc = "responded" =>
        \E out \in {SeedOutcome(lp.db0, autoflush, today, lp.a, FALSE, "none")} :
            /\ out.status = resp.status
            /\ out.body = resp.body
            /\ out.db = Database

=============================================================================
